---- MODULE Spec2Model ----
(***************************************************************************)
(* Model of the NBA matchup pipeline:                                      *)
(*   scraper_backend.py  scrape_all_data: scrape every play type, dump the *)
(*                       two caches and cache_info to JSON files;          *)
(*   flask_backend.py    __main__: load_cache_from_json, then serve        *)
(*                       get_player / get_defense / get_matchup /          *)
(*                       ai_analysis / status from the global caches;      *)
(*   playerstyles1.py    normalize_text, get_offensive_stats,              *)
(*                       get_defensive_stats.                              *)
(*                                                                         *)
(* Text is a sequence of one-character tokens.  "a_acute" and "A_acute"    *)
(* stand for the precomposed accented letters, "acute" for the combining   *)
(* mark (Unicode category Mn), "sp" and "tab" for whitespace.              *)
(* A cell value is a tagged record: Str(text), Num(n) or NaN.              *)
(* A DataFrame is [cols |-> sequence of column names, rows |-> sequence of *)
(* rows, each a sequence of cells aligned with cols].                      *)
(* A Python dict is a sequence of <<key, value>> pairs in insertion order. *)
(***************************************************************************)
EXTENDS Integers, Sequences, FiniteSets, TLC

VARIABLES
    spc,              \* scraper process: position in scrape_all_data
    s_offensive,      \* scrape_all_data's local offensive_cache (dict)
    s_defensive,      \* scrape_all_data's local defensive_cache (dict)
    scrapeLog,        \* every call of get_*_stats: <<side, play_type, result>>
    files,            \* the three JSON files: name -> content or Missing
    writeLog,         \* names of the files written, in order
    bpc,              \* backend process: position in __main__
    load_result,      \* return value of load_cache_from_json, "pending" before
    offensive_cache,  \* flask_backend.offensive_cache
    defensive_cache,  \* flask_backend.defensive_cache
    cache_timestamp,  \* flask_backend.cache_timestamp
    exitStatus,       \* exit status of the backend process, -1 while running
    lastReq,          \* the last HTTP request handled
    lastResp          \* what the client received for it

vars == <<spc, s_offensive, s_defensive, scrapeLog, files, writeLog, bpc,
          load_result, offensive_cache, defensive_cache, cache_timestamp,
          exitStatus, lastReq, lastResp>>

scraperVars == <<spc, s_offensive, s_defensive, scrapeLog, files, writeLog>>
cacheVars == <<offensive_cache, defensive_cache, cache_timestamp>>

----------------------------------------------------------------------------
(* Bounds *)

\* number of offensive play types of the dictionary that are scraped
NumOffTypes == 2
\* number of defensive play types of the dictionary that are scraped
NumDefTypes == 2

----------------------------------------------------------------------------
(* Program constants *)

offensive_play_types ==
    << "Pick-and-Roll", "Isolation", "Transition", "Roll Man", "Post-Up",
       "Spot-Up", "Cut", "Off Screen", "Putbacks", "Hand-Off" >>

defensive_play_types ==
    << "Isolation", "Transition", "Pick-and-Roll", "Roll Man", "Post-Up",
       "Spot-Up", "Hand-Off", "Off Screen", "Putbacks" >>

Min(a, b) == IF a < b THEN a ELSE b

OffTypes == SubSeq(offensive_play_types, 1, Min(NumOffTypes, Len(offensive_play_types)))
DefTypes == SubSeq(defensive_play_types, 1, Min(NumDefTypes, Len(defensive_play_types)))

\* the value time.time() yields during the scraper run
ScrapeTime == 1700

----------------------------------------------------------------------------
(* Python values *)

None == [t |-> "none", s |-> << >>, n |-> 0]
NaN == [t |-> "nan", s |-> << >>, n |-> 0]
Str(s) == [t |-> "str", s |-> s, n |-> 0]
Num(n) == [t |-> "num", s |-> << >>, n |-> n]

\* str(x)
py_str(x) ==
    CASE x.t = "str" -> x.s
      [] x.t = "nan" -> << "n", "a", "n" >>
      [] x.t = "none" -> << "N", "o", "n", "e" >>
      [] OTHER -> << "0" >>

\* bool(x): the truth value of a cell in "if row['PTS']"
py_truthy(x) ==
    CASE x.t = "str" -> x.s # << >>
      [] x.t = "num" -> x.n # 0
      [] x.t = "nan" -> TRUE
      [] OTHER -> FALSE

----------------------------------------------------------------------------
(* Text *)

\* str.lower() on one character
LowerChar(c) ==
    CASE c = "A" -> "a"
      [] c = "B" -> "b"
      [] c = "L" -> "l"
      [] c = "O" -> "o"
      [] c = "Q" -> "q"
      [] c = "U" -> "u"
      [] c = "T" -> "t"
      [] c = "N" -> "n"
      [] c = "A_acute" -> "a_acute"
      [] OTHER -> c

lower(text) == [i \in 1..Len(text) |-> LowerChar(text[i])]

\* unicodedata.normalize('NFD', c) on one character
NFDChar(c) ==
    CASE c = "a_acute" -> << "a", "acute" >>
      [] c = "A_acute" -> << "A", "acute" >>
      [] OTHER -> << c >>

\* unicodedata.category(c) == 'Mn'
IsMn(c) == c = "acute"

\* str.isspace() on one character
IsSpace(c) == c \in {"sp", "tab"}

RECURSIVE NFD(_)
NFD(text) == IF text = << >> THEN << >> ELSE NFDChar(Head(text)) \o NFD(Tail(text))

StripMarks(text) == SelectSeq(text, LAMBDA c : ~IsMn(c))

\* ' '.join(text.split()): runs of whitespace become one space, ends stripped
RECURSIVE JoinSplit(_, _)
JoinSplit(text, pending) ==
    IF text = << >> THEN << >>
    ELSE IF IsSpace(Head(text)) THEN JoinSplit(Tail(text), TRUE)
    ELSE (IF pending THEN << "sp" >> ELSE << >>) \o << Head(text) >>
         \o JoinSplit(Tail(text), FALSE)

RECURSIVE LStrip(_)
LStrip(text) ==
    IF text # << >> /\ IsSpace(Head(text)) THEN LStrip(Tail(text)) ELSE text

CollapseSpace(text) == JoinSplit(LStrip(text), FALSE)

normalize_text(text) == CollapseSpace(StripMarks(NFD(lower(text))))

\* needle in hay (Python substring test)
Contains(hay, needle) ==
    \E i \in 0..(Len(hay) - Len(needle)) :
        SubSeq(hay, i + 1, i + Len(needle)) = needle

----------------------------------------------------------------------------
(* DataFrames *)

DataFrame(cols, rows) == [isNone |-> FALSE, cols |-> cols, rows |-> rows]
NoneDF == [isNone |-> TRUE, cols |-> << >>, rows |-> << >>]

HasCol(df, c) == \E i \in 1..Len(df.cols) : df.cols[i] = c
ColIndex(df, c) == CHOOSE i \in 1..Len(df.cols) : df.cols[i] = c

\* row[c]
Cell(df, row, c) == row[ColIndex(df, c)]

\* df[wanted]: the columns of wanted, in that order
SelectCols(df, wanted) ==
    DataFrame(wanted,
              [r \in 1..Len(df.rows) |->
                  [j \in 1..Len(wanted) |-> Cell(df, df.rows[r], wanted[j])]])

\* df[c] = v  (new last column holding v in every row)
AddCol(df, c, v) ==
    DataFrame(Append(df.cols, c),
              [r \in 1..Len(df.rows) |-> Append(df.rows[r], v)])

DigitValue(c) ==
    CASE c = "0" -> 0 [] c = "1" -> 1 [] c = "2" -> 2 [] c = "3" -> 3
      [] c = "4" -> 4 [] c = "5" -> 5 [] c = "6" -> 6 [] c = "7" -> 7
      [] c = "8" -> 8 [] c = "9" -> 9 [] OTHER -> -1

RECURSIVE ParseDigits(_, _)
ParseDigits(text, acc) ==
    IF text = << >> THEN acc
    ELSE ParseDigits(Tail(text), 10 * acc + DigitValue(Head(text)))

\* pd.to_numeric(cell, errors='coerce') on one cell
to_numeric(x) ==
    IF x.t = "num" THEN x
    ELSE IF x.t = "str" /\ x.s # << >> /\ \A i \in 1..Len(x.s) : DigitValue(x.s[i]) >= 0
         THEN Num(ParseDigits(x.s, 0))
         ELSE NaN

\* df[c] = pd.to_numeric(df[c], errors='coerce')
NumericCol(df, c) ==
    DataFrame(df.cols,
              [r \in 1..Len(df.rows) |->
                  [j \in 1..Len(df.cols) |->
                      IF df.cols[j] = c THEN to_numeric(df.rows[r][j]) ELSE df.rows[r][j]]])

\* pd.DataFrame(all_rows, columns=headers) raises when a row's width differs
Misshaped(headers, rows) == \E r \in 1..Len(rows) : Len(rows[r]) # Len(headers)

----------------------------------------------------------------------------
(* playerstyles1.py: the scrapers, as functions of the page they fetch.    *)
(* A page is [found, headers, rows]: whether the stats table is in the     *)
(* page source, its <th> texts and the <td> texts of its body rows.        *)
(* found = FALSE also stands for any exception caught inside the scraper.  *)

TextRows(rows) == [r \in 1..Len(rows) |-> [j \in 1..Len(rows[r]) |-> Str(rows[r][j])]]

desired_cols == << "TEAM", "PLAYER", "PTS" >>

get_offensive_stats(page, play_type) ==
    IF ~page.found \/ Misshaped(page.headers, page.rows) THEN NoneDF
    ELSE LET df0 == DataFrame(page.headers, TextRows(page.rows))
             df1 == IF HasCol(df0, "PTS") THEN NumericCol(df0, "PTS") ELSE df0
             available_cols == SelectSeq(desired_cols, LAMBDA c : HasCol(df1, c))
         IN  IF available_cols = << >> THEN df1
             ELSE AddCol(SelectCols(df1, available_cols), "Play_Type", Str(<< play_type >>))

UnrankedRows(rows) == [r \in 1..Len(rows) |-> << Num(1) >> \o TextRows(rows)[r]]

RankedRows(rows) == [r \in 1..Len(rows) |-> << Num(r) >> \o TextRows(rows)[r]]

get_defensive_stats(page, play_type) ==
    IF ~page.found \/ Misshaped(page.headers, page.rows) THEN NoneDF
    ELSE LET df0 == DataFrame(<< "RANK" >> \o page.headers, RankedRows(page.rows))
             df1 == IF HasCol(df0, "PPP") THEN NumericCol(df0, "PPP") ELSE df0
         IN  IF ~HasCol(df1, "TEAM") \/ ~HasCol(df1, "PPP") THEN NoneDF
             ELSE AddCol(SelectCols(df1, << "RANK", "TEAM", "PPP" >>),
                         "Play_Type", Str(<< play_type >>))

----------------------------------------------------------------------------
(* to_dict('records'), JSON, pd.DataFrame(records) *)

\* df.to_dict('records'): one dict per row, keyed by column
to_dict_records(df) ==
    [r \in 1..Len(df.rows) |->
        [j \in 1..Len(df.cols) |-> << df.cols[j], df.rows[r][j] >>]]

\* json.dump of one value (allow_nan is on by default)
json_dump_value(x) ==
    CASE x.t = "str" -> [j |-> "string", s |-> x.s, n |-> 0]
      [] x.t = "num" -> [j |-> "number", s |-> << >>, n |-> x.n]
      [] x.t = "nan" -> [j |-> "NaN", s |-> << >>, n |-> 0]
      [] OTHER -> [j |-> "null", s |-> << >>, n |-> 0]

\* json.load of one value
json_load_value(v) ==
    CASE v.j = "string" -> Str(v.s)
      [] v.j = "number" -> Num(v.n)
      [] v.j = "NaN" -> NaN
      [] OTHER -> None

\* json.dump / json.load of a dict (JSON object, member order kept)
json_dump_dict(d) == [i \in 1..Len(d) |-> << d[i][1], json_dump_value(d[i][2]) >>]
json_load_dict(o) == [i \in 1..Len(o) |-> << o[i][1], json_load_value(o[i][2]) >>]

\* json.dump / json.load of a cache: {play_type: [record, ...]}
json_dump_cache(cache) ==
    [i \in 1..Len(cache) |->
        << cache[i][1],
           [r \in 1..Len(cache[i][2]) |-> json_dump_dict(cache[i][2][r])] >>]
json_load_cache(doc) ==
    [i \in 1..Len(doc) |->
        << doc[i][1],
           [r \in 1..Len(doc[i][2]) |-> json_load_dict(doc[i][2][r])] >>]

HasKey(d, k) == \E i \in 1..Len(d) : d[i][1] = k
Lookup(d, k) == d[CHOOSE i \in 1..Len(d) : d[i][1] = k][2]
Keys(d) == [i \in 1..Len(d) |-> d[i][1]]

\* pd.DataFrame(records): columns are the keys of the records; an empty
\* list gives a frame with no columns at all
DataFrameFromRecords(records) ==
    IF records = << >> THEN DataFrame(<< >>, << >>)
    ELSE LET cols == Keys(records[1])
         IN  DataFrame(cols,
                 [r \in 1..Len(records) |->
                     [j \in 1..Len(cols) |->
                         IF HasKey(records[r], cols[j])
                         THEN Lookup(records[r], cols[j]) ELSE NaN]])

----------------------------------------------------------------------------
(* flask_backend.py: what a view function hands back to Flask.             *)
(*   kind = "tuple"     return jsonify(body), status                       *)
(*   kind = "response"  return jsonify(body)        (a bare Response)      *)
(*   kind = "raise"     an exception left the view function                *)
(* body is [error, name, data]; a matchup record carries the two bodies it *)
(* combines in player and defense.  compared counts the names the view     *)
(* tested against the search string.                                       *)

NoBody == [error |-> "", name |-> None, data |-> << >>]
ErrorBody(msg) == [error |-> msg, name |-> None, data |-> << >>]
DataBody(name, data) == [error |-> "", name |-> name, data |-> data]

TupleResult(body, status, compared) ==
    [kind |-> "tuple", status |-> status, body |-> body,
     player |-> NoBody, defense |-> NoBody, exc |-> "", compared |-> compared]
ResponseResult(body, compared) ==
    [kind |-> "response", status |-> 200, body |-> body,
     player |-> NoBody, defense |-> NoBody, exc |-> "", compared |-> compared]
MatchupResult(player, defense, compared) ==
    [kind |-> "response", status |-> 200, body |-> NoBody,
     player |-> player, defense |-> defense, exc |-> "", compared |-> compared]
RaiseResult(exc, compared) ==
    [kind |-> "raise", status |-> 0, body |-> NoBody,
     player |-> NoBody, defense |-> NoBody, exc |-> exc, compared |-> compared]

NotLoaded == "Data not loaded. Please run scraper_backend.py first."

Entry(playType, team, player, pts, rank, ppp) ==
    [playType |-> playType, team |-> team, player |-> player,
     pts |-> pts, rank |-> rank, ppp |-> ppp]

\* float(x) if x else 0
FloatOrZero(x) == IF py_truthy(x) THEN x ELSE Num(0)

\* matches_player(name) inside get_player
matches_player_exact(search_normalized, name) ==
    search_normalized = normalize_text(py_str(name))

matches_player(search_normalized, name) ==
    Contains(normalize_text(py_str(name)), search_normalized)

\* the entries get_player appends for one play type
PlayerEntries(play_type, df, search_normalized) ==
    IF HasCol(df, "PLAYER") /\ HasCol(df, "PTS") /\ HasCol(df, "TEAM")
    THEN LET player_stats ==
                 SelectSeq(df.rows,
                     LAMBDA row : matches_player(search_normalized, Cell(df, row, "PLAYER")))
         IN  [k \in 1..Len(player_stats) |->
                 Entry(play_type,
                       Cell(df, player_stats[k], "TEAM"),
                       Cell(df, player_stats[k], "PLAYER"),
                       FloatOrZero(Cell(df, player_stats[k], "PTS")),
                       None, None)]
    ELSE << >>

PlayerCompared(df) ==
    IF HasCol(df, "PLAYER") /\ HasCol(df, "PTS") /\ HasCol(df, "TEAM")
    THEN Len(df.rows) ELSE 0

RECURSIVE PlayerData(_, _)
PlayerData(cache, search_normalized) ==
    IF cache = << >> THEN << >>
    ELSE PlayerEntries(cache[1][1], cache[1][2], search_normalized)
         \o PlayerData(Tail(cache), search_normalized)

RECURSIVE SumPlayerCompared(_)
SumPlayerCompared(cache) ==
    IF cache = << >> THEN 0
    ELSE PlayerCompared(cache[1][2]) + SumPlayerCompared(Tail(cache))

get_player_on(cache, player_name) ==
    IF cache = << >> THEN TupleResult(ErrorBody(NotLoaded), 503, 0)
    ELSE LET search_normalized == normalize_text(player_name)
             player_data == PlayerData(cache, search_normalized)
             compared == SumPlayerCompared(cache)
         IN  IF player_data = << >>
             THEN TupleResult(ErrorBody("Player not found"), 404, compared)
             ELSE ResponseResult(DataBody(player_data[1].player, player_data), compared)

\* Series.str.contains(team_name, case=False, na=False) on one cell, for a
\* team_name without regular-expression metacharacters
team_contains(team_name, cell) ==
    cell.t = "str" /\ Contains(lower(cell.s), lower(team_name))

\* one iteration of get_defense's loop: [exc, entries, compared]
DefenseEntries(play_type, df, team_name) ==
    IF ~HasCol(df, "TEAM") THEN [exc |-> "KeyError", entries |-> << >>, compared |-> 0]
    ELSE LET team_stats ==
                 SelectSeq(df.rows,
                     LAMBDA row : team_contains(team_name, Cell(df, row, "TEAM")))
         IN  IF team_stats # << >> /\ (~HasCol(df, "RANK") \/ ~HasCol(df, "PPP"))
             THEN [exc |-> "KeyError", entries |-> << >>, compared |-> Len(df.rows)]
             ELSE IF \E k \in 1..Len(team_stats) : Cell(df, team_stats[k], "RANK").t # "num"
             THEN [exc |-> "ValueError", entries |-> << >>, compared |-> Len(df.rows)]
             ELSE [exc |-> "",
                   entries |->
                       [k \in 1..Len(team_stats) |->
                           Entry(play_type,
                                 Cell(df, team_stats[k], "TEAM"),
                                 None, None,
                                 Cell(df, team_stats[k], "RANK"),
                                 FloatOrZero(Cell(df, team_stats[k], "PPP")))],
                   compared |-> Len(df.rows)]

\* the loop of get_defense: stops at the first iteration that raises
RECURSIVE DefenseData(_, _)
DefenseData(cache, team_name) ==
    IF cache = << >> THEN [exc |-> "", entries |-> << >>, compared |-> 0]
    ELSE LET first == DefenseEntries(cache[1][1], cache[1][2], team_name)
         IN  IF first.exc # "" THEN first
             ELSE LET rest == DefenseData(Tail(cache), team_name)
                  IN  [exc |-> rest.exc,
                       entries |-> first.entries \o rest.entries,
                       compared |-> first.compared + rest.compared]

get_defense_on_unguarded(cache, team_name) ==
    LET d == DefenseData(cache, team_name)
    IN  IF d.exc # "" THEN RaiseResult(d.exc, d.compared)
        ELSE IF d.entries = << >>
        THEN TupleResult(ErrorBody("Team not found"), 404, d.compared)
        ELSE ResponseResult(DataBody(d.entries[1].team, d.entries), d.compared)

get_defense_on(cache, team_name) ==
    IF cache = << >> THEN TupleResult(ErrorBody(NotLoaded), 503, 0)
    ELSE LET d == DefenseData(cache, team_name)
         IN  IF d.exc # "" THEN RaiseResult(d.exc, d.compared)
             ELSE IF d.entries = << >>
             THEN TupleResult(ErrorBody("Team not found"), 404, d.compared)
             ELSE ResponseResult(DataBody(d.entries[1].team, d.entries), d.compared)

\* player_response[1] == 404: subscripting a bare Response is a TypeError
get_matchup_on(ocache, dcache, player_name, team_name) ==
    LET player_response == get_player_on(ocache, player_name)
        defense_response == get_defense_on(dcache, team_name)
        both == player_response.compared + defense_response.compared
    IN  IF player_response.kind = "raise" THEN player_response
        ELSE IF player_response.kind # "tuple"
        THEN RaiseResult("TypeError", player_response.compared)
        ELSE IF player_response.status = 404 THEN player_response
        ELSE IF defense_response.kind = "raise" THEN RaiseResult(defense_response.exc, both)
        ELSE IF defense_response.kind # "tuple" THEN RaiseResult("TypeError", both)
        ELSE IF defense_response.status = 404
        THEN TupleResult(defense_response.body, 404, both)
        ELSE MatchupResult(player_response.body, defense_response.body, both)

\* what Flask sends for a view result: an unhandled exception is a 500
Serve(result) ==
    IF result.kind = "raise"
    THEN [result EXCEPT !.status = 500, !.body = ErrorBody("Internal Server Error")]
    ELSE result

----------------------------------------------------------------------------
(* ai_analysis and status *)

\* str(e) of the exceptions the body of ai_analysis raises by itself
BadRequestMessage == << "4", "0", "0", "sp", "B", "a", "d" >>
AttributeErrorMessage == << "N", "o", "n", "e", "T", "y", "p", "e" >>
KeyErrorMessage == << "p", "t", "s" >>

\* the except clause of ai_analysis
handle_exception_case_sensitive(error_message) ==
    IF Contains(error_message, << "q", "u", "o", "t", "a" >>)
       \/ Contains(error_message, << "4", "2", "9" >>)
    THEN TupleResult(ErrorBody("Rate limit exceeded. Please wait a minute and try again."),
                     429, 0)
    ELSE TupleResult([error |-> "Analysis failed", name |-> Str(error_message),
                      data |-> << >>], 500, 0)

handle_exception(error_message) ==
    IF Contains(lower(error_message), << "q", "u", "o", "t", "a" >>)
       \/ Contains(error_message, << "4", "2", "9" >>)
    THEN TupleResult(ErrorBody("Rate limit exceeded. Please wait a minute and try again."),
                     429, 0)
    ELSE TupleResult([error |-> "Analysis failed", name |-> Str(error_message),
                      data |-> << >>], 500, 0)

\* req.fault: what goes wrong while the request is handled
\*   "json"    request.json raises on a malformed body
\*   "absent"  request.json is None, data.get raises
\*   "stats"   a stats entry lacks 'pts' or 'rank'
\*   "crew"    the LLM panel raises an exception whose text is req.message
\* req.names: playerName and teamName are both given
ai_analysis_on(req) ==
    IF req.fault = "json" THEN handle_exception(BadRequestMessage)
    ELSE IF req.fault = "absent" THEN handle_exception(AttributeErrorMessage)
    ELSE IF ~req.names
    THEN TupleResult(ErrorBody("Missing player or team name"), 400, 0)
    ELSE IF req.fault = "stats" THEN handle_exception(KeyErrorMessage)
    ELSE IF req.fault = "crew" THEN handle_exception(req.message)
    ELSE ResponseResult(DataBody(Str(req.player_name), << >>), 0)

status_on(ocache, dcache, timestamp) ==
    ResponseResult(
        DataBody(timestamp,
                 << Entry("status", None, None, None, Num(Len(ocache)), Num(Len(dcache))) >>),
        0)

----------------------------------------------------------------------------
(* Inputs *)

NoTable == [found |-> FALSE, headers |-> << >>, rows |-> << >>]

OffensiveFull ==
    [found |-> TRUE,
     headers |-> << "PLAYER", "TEAM", "GP", "PTS" >>,
     rows |-> << << << "A_acute", "l", "sp", "sp", "B" >>, << "B", "o", "s" >>,
                    << "5" >>, << "1", "2" >> >>,
                 << << "a", "b" >>, << "L", "a", "l" >>, << "3" >>, << "-" >> >> >>]

OffensiveNoPts ==
    [found |-> TRUE,
     headers |-> << "PLAYER", "TEAM" >>,
     rows |-> << << << "a", "b" >>, << "B", "o", "s" >> >> >>]

OffensiveNoDesired ==
    [found |-> TRUE,
     headers |-> << "GP" >>,
     rows |-> << << << "5" >> >> >>]

OffensiveEmpty ==
    [found |-> TRUE,
     headers |-> << "PLAYER", "TEAM", "GP", "PTS" >>,
     rows |-> << >>]

OffPages == {NoTable, OffensiveFull, OffensiveNoPts, OffensiveNoDesired, OffensiveEmpty}

DefensiveFull ==
    [found |-> TRUE,
     headers |-> << "TEAM", "GP", "PPP" >>,
     rows |-> << << << "L", "a", "l" >>, << "4" >>, << "0" >> >>,
                 << << "B", "o", "s" >>, << "5" >>, << "9" >> >> >>]

DefensiveNoPpp ==
    [found |-> TRUE,
     headers |-> << "TEAM", "GP" >>,
     rows |-> << << << "B", "o", "s" >>, << "5" >> >> >>]

DefensiveMisshaped ==
    [found |-> TRUE,
     headers |-> << "TEAM", "GP", "PPP" >>,
     rows |-> << << << "B", "o", "s" >>, << "5" >> >> >>]

DefensiveEmpty ==
    [found |-> TRUE,
     headers |-> << "TEAM", "GP", "PPP" >>,
     rows |-> << >>]

DefPages == {NoTable, DefensiveFull, DefensiveNoPpp, DefensiveMisshaped, DefensiveEmpty}

PlayerQueries ==
    { << "a", "l", "sp", "b" >>, << "A_acute", "B" >>, << "b" >>, << "q" >> }

TeamQueries == { << "b", "O" >>, << "L" >>, << "q" >> }

\* <<player_name, team_name>> of the matchup requests
MatchupQueries ==
    { << << "b" >>, << "L" >> >>, << << "b" >>, << "q" >> >>,
      << << "q" >>, << "L" >> >>, << << "q" >>, << "q" >> >> }

CrewMessages ==
    { << "Q", "u", "o", "t", "a" >>, << "x", "4", "2", "9" >>,
      << "4", "2", "sp", "9" >>, << "q", "u", "o", "t" >> }

Request(route, player_name, team_name, fault, names, message) ==
    [route |-> route, player_name |-> player_name, team_name |-> team_name,
     fault |-> fault, names |-> names, message |-> message]

NoRequest == Request("none", << >>, << >>, "none", FALSE, << >>)

AiRequests ==
    { Request("ai_analysis", << "a", "b" >>, << "L" >>, f, TRUE, << >>) :
          f \in {"none", "json", "absent", "stats"} }
    \cup { Request("ai_analysis", << "a", "b" >>, << >>, f, FALSE, << >>) :
               f \in {"none", "stats"} }
    \cup { Request("ai_analysis", << "a", "b" >>, << "L" >>, "crew", TRUE, m) :
               m \in CrewMessages }

NoResponse == TupleResult(NoBody, 0, 0)

FileNames == {"offensive_cache.json", "defensive_cache.json", "cache_info.json"}
MissingFile == [exists |-> FALSE, doc |-> << >>]
FileOf(doc) == [exists |-> TRUE, doc |-> doc]

----------------------------------------------------------------------------
(* State machine *)

Init ==
    /\ spc = "offensive"
    /\ s_offensive = << >>
    /\ s_defensive = << >>
    /\ scrapeLog = << >>
    /\ files = [f \in FileNames |-> MissingFile]
    /\ writeLog = << >>
    /\ bpc = "load_offensive"
    /\ load_result = "pending"
    /\ offensive_cache = << >>
    /\ defensive_cache = << >>
    /\ cache_timestamp = None
    /\ exitStatus = -1
    /\ lastReq = NoRequest
    /\ lastResp = NoResponse

backendVars == <<bpc, load_result, offensive_cache, defensive_cache,
                 cache_timestamp, exitStatus, lastReq, lastResp>>

ScrapeCall(side, play_type, result) ==
    [side |-> side, play_type |-> play_type, result |-> result]

CallsOf(side) == SelectSeq(scrapeLog, LAMBDA c : c.side = side)

\* if stats is not None: cache[play_type] = stats.to_dict('records')
store_always(cache, play_type, stats) ==
    Append(cache, << play_type, to_dict_records(stats) >>)

store(cache, play_type, stats) ==
    IF ~stats.isNone THEN Append(cache, << play_type, to_dict_records(stats) >>)
    ELSE cache

\* scrape_all_data: one iteration of the offensive loop
scrape_offensive ==
    /\ spc = "offensive"
    /\ LET i == Len(CallsOf("offensive")) + 1
           play_type == OffTypes[i]
       IN  \E page \in OffPages :
               LET stats == get_offensive_stats(page, play_type)
               IN  /\ s_offensive' = store(s_offensive, play_type, stats)
                   /\ scrapeLog' = Append(scrapeLog, ScrapeCall("offensive", play_type, stats))
                   /\ spc' = IF i = Len(OffTypes) THEN "defensive" ELSE "offensive"
    /\ UNCHANGED <<s_defensive, files, writeLog>>
    /\ UNCHANGED backendVars

\* scrape_all_data: one iteration of the defensive loop
scrape_defensive ==
    /\ spc = "defensive"
    /\ LET i == Len(CallsOf("defensive")) + 1
           play_type == DefTypes[i]
       IN  \E page \in DefPages :
               LET stats == get_defensive_stats(page, play_type)
               IN  /\ s_defensive' = store(s_defensive, play_type, stats)
                   /\ scrapeLog' = Append(scrapeLog, ScrapeCall("defensive", play_type, stats))
                   /\ spc' = IF i = Len(DefTypes) THEN "write_offensive" ELSE "defensive"
    /\ UNCHANGED <<s_offensive, files, writeLog>>
    /\ UNCHANGED backendVars

write_offensive ==
    /\ spc = "write_offensive"
    /\ files' = [files EXCEPT !["offensive_cache.json"] = FileOf(json_dump_cache(s_offensive))]
    /\ writeLog' = Append(writeLog, "offensive_cache.json")
    /\ spc' = "write_defensive"
    /\ UNCHANGED <<s_offensive, s_defensive, scrapeLog>>
    /\ UNCHANGED backendVars

write_defensive ==
    /\ spc = "write_defensive"
    /\ files' = [files EXCEPT !["defensive_cache.json"] = FileOf(json_dump_cache(s_defensive))]
    /\ writeLog' = Append(writeLog, "defensive_cache.json")
    /\ spc' = "write_info"
    /\ UNCHANGED <<s_offensive, s_defensive, scrapeLog>>
    /\ UNCHANGED backendVars

cache_info ==
    << << "timestamp", Num(ScrapeTime) >>,
       << "offensive_types", Num(Len(s_offensive)) >>,
       << "defensive_types", Num(Len(s_defensive)) >>,
       << "total_time_seconds", Num(0) >> >>

write_info ==
    /\ spc = "write_info"
    /\ files' = [files EXCEPT !["cache_info.json"] = FileOf(json_dump_dict(cache_info))]
    /\ writeLog' = Append(writeLog, "cache_info.json")
    /\ spc' = "done"
    /\ UNCHANGED <<s_offensive, s_defensive, scrapeLog>>
    /\ UNCHANGED backendVars

\* {play_type: pd.DataFrame(records) for play_type, records in data.items()}
frames_reversed(data) ==
    [i \in 1..Len(data) |->
        << data[i][1],
           LET df == DataFrameFromRecords(data[i][2])
           IN  DataFrame(df.cols, [r \in 1..Len(df.rows) |-> df.rows[Len(df.rows) + 1 - r]]) >>]

frames(data) ==
    [i \in 1..Len(data) |-> << data[i][1], DataFrameFromRecords(data[i][2]) >>]

\* load_cache_from_json: open and load offensive_cache.json
load_offensive ==
    /\ bpc = "load_offensive"
    /\ IF files["offensive_cache.json"].exists
       THEN /\ offensive_cache' = frames(json_load_cache(files["offensive_cache.json"].doc))
            /\ bpc' = "load_defensive"
            /\ UNCHANGED load_result
       ELSE /\ load_result' = "False"
            /\ bpc' = "returned"
            /\ UNCHANGED offensive_cache
    /\ UNCHANGED <<defensive_cache, cache_timestamp, exitStatus, lastReq, lastResp>>
    /\ UNCHANGED scraperVars

\* load_cache_from_json: open and load defensive_cache.json
load_defensive ==
    /\ bpc = "load_defensive"
    /\ IF files["defensive_cache.json"].exists
       THEN /\ defensive_cache' = frames(json_load_cache(files["defensive_cache.json"].doc))
            /\ bpc' = "load_info"
            /\ UNCHANGED load_result
       ELSE /\ load_result' = "False"
            /\ bpc' = "returned"
            /\ UNCHANGED defensive_cache
    /\ UNCHANGED <<offensive_cache, cache_timestamp, exitStatus, lastReq, lastResp>>
    /\ UNCHANGED scraperVars

\* load_cache_from_json: open and load cache_info.json, return True
load_info ==
    /\ bpc = "load_info"
    /\ IF files["cache_info.json"].exists
          /\ HasKey(files["cache_info.json"].doc, "timestamp")
       THEN /\ cache_timestamp' = Lookup(json_load_dict(files["cache_info.json"].doc), "timestamp")
            /\ load_result' = "True"
            /\ bpc' = "returned"
       ELSE /\ load_result' = "False"
            /\ bpc' = "returned"
            /\ UNCHANGED cache_timestamp
    /\ UNCHANGED <<offensive_cache, defensive_cache, exitStatus, lastReq, lastResp>>
    /\ UNCHANGED scraperVars

\* __main__: if not load_cache_from_json(): exit(1)
main_exit ==
    /\ bpc = "returned"
    /\ load_result = "False"
    /\ bpc' = "exited"
    /\ exitStatus' = 1
    /\ UNCHANGED <<load_result, offensive_cache, defensive_cache, cache_timestamp,
                   lastReq, lastResp>>
    /\ UNCHANGED scraperVars

main_run_unconditional ==
    /\ bpc = "returned"
    /\ bpc' = "serving"
    /\ UNCHANGED <<load_result, offensive_cache, defensive_cache, cache_timestamp,
                   exitStatus, lastReq, lastResp>>
    /\ UNCHANGED scraperVars

\* __main__: app.run(...) once load_cache_from_json() returned True
main_run ==
    /\ bpc = "returned"
    /\ load_result = "True"
    /\ bpc' = "serving"
    /\ UNCHANGED <<load_result, offensive_cache, defensive_cache, cache_timestamp,
                   exitStatus, lastReq, lastResp>>
    /\ UNCHANGED scraperVars

\* the server is up: Flask dispatches requests to the view functions
Serving == bpc = "serving"

get_player ==
    /\ Serving
    /\ \E player_name \in PlayerQueries :
           /\ lastReq' = Request("player", player_name, << >>, "none", FALSE, << >>)
           /\ lastResp' = Serve(get_player_on(offensive_cache, player_name))
    /\ UNCHANGED <<bpc, load_result, exitStatus>>
    /\ UNCHANGED cacheVars
    /\ UNCHANGED scraperVars

get_defense ==
    /\ Serving
    /\ \E team_name \in TeamQueries :
           /\ lastReq' = Request("defense", << >>, team_name, "none", FALSE, << >>)
           /\ lastResp' = Serve(get_defense_on(defensive_cache, team_name))
    /\ UNCHANGED <<bpc, load_result, exitStatus>>
    /\ UNCHANGED cacheVars
    /\ UNCHANGED scraperVars

get_matchup ==
    /\ Serving
    /\ \E q \in MatchupQueries :
           /\ lastReq' = Request("matchup", q[1], q[2], "none", FALSE, << >>)
           /\ lastResp' = Serve(get_matchup_on(offensive_cache, defensive_cache, q[1], q[2]))
    /\ UNCHANGED <<bpc, load_result, exitStatus>>
    /\ UNCHANGED cacheVars
    /\ UNCHANGED scraperVars

ai_analysis ==
    /\ Serving
    /\ \E req \in AiRequests :
           /\ lastReq' = req
           /\ lastResp' = Serve(ai_analysis_on(req))
    /\ UNCHANGED <<bpc, load_result, exitStatus>>
    /\ UNCHANGED cacheVars
    /\ UNCHANGED scraperVars

status_drops_timestamp ==
    /\ Serving
    /\ lastReq' = Request("status", << >>, << >>, "none", FALSE, << >>)
    /\ lastResp' = Serve(status_on(offensive_cache, defensive_cache, cache_timestamp))
    /\ cache_timestamp' = None
    /\ UNCHANGED <<bpc, load_result, exitStatus, offensive_cache, defensive_cache>>
    /\ UNCHANGED scraperVars

status ==
    /\ Serving
    /\ lastReq' = Request("status", << >>, << >>, "none", FALSE, << >>)
    /\ lastResp' = Serve(status_on(offensive_cache, defensive_cache, cache_timestamp))
    /\ UNCHANGED <<bpc, load_result, exitStatus>>
    /\ UNCHANGED cacheVars
    /\ UNCHANGED scraperVars

Next ==
    \/ scrape_offensive
    \/ scrape_defensive
    \/ write_offensive
    \/ write_defensive
    \/ write_info
    \/ load_offensive
    \/ load_defensive
    \/ load_info
    \/ main_exit
    \/ main_run
    \/ get_player
    \/ get_defense
    \/ get_matchup
    \/ ai_analysis
    \/ status

Spec == Init /\ [][Next]_vars

----------------------------------------------------------------------------
(* Properties *)

\* the rows of the cache a request for player_name is about: table i has the
\* PLAYER, PTS and TEAM columns and the normal form of row r's PLAYER
\* contains the normal form of player_name
Unaccent(c) ==
    CASE c \in {"a_acute", "A_acute", "A"} -> "a"
      [] c = "B" -> "b"
      [] c = "L" -> "l"
      [] c = "O" -> "o"
      [] c = "Q" -> "q"
      [] c = "U" -> "u"
      [] c = "T" -> "t"
      [] c = "N" -> "n"
      [] OTHER -> c

NormalForm(text) ==
    LET base == SelectSeq(text, LAMBDA c : c # "acute")
    IN  CollapseSpace([i \in 1..Len(base) |-> Unaccent(base[i])])

OffensiveMatches(player_name) ==
    { ir \in (1..Len(offensive_cache)) \X (1..2) :
        LET df == offensive_cache[ir[1]][2]
        IN  /\ {"PLAYER", "PTS", "TEAM"} \subseteq {df.cols[j] : j \in 1..Len(df.cols)}
            /\ ir[2] <= Len(df.rows)
            /\ Contains(NormalForm(py_str(Cell(df, df.rows[ir[2]], "PLAYER"))),
                        NormalForm(player_name)) }

DefensiveMatches(team_name) ==
    { ir \in (1..Len(defensive_cache)) \X (1..2) :
        LET df == defensive_cache[ir[1]][2]
        IN  /\ "TEAM" \in {df.cols[j] : j \in 1..Len(df.cols)}
            /\ ir[2] <= Len(df.rows)
            /\ Contains(lower(py_str(Cell(df, df.rows[ir[2]], "TEAM"))), lower(team_name)) }

CachesLoaded == offensive_cache # << >> /\ defensive_cache # << >>

\* C1: a matchup request whose player matches an offensive row and whose
\* team matches a defensive row is answered 200 with the bodies of
\* get_player and get_defense in "player" and "defense".
C1_MatchupCombinesBothBodies ==
    ( /\ lastReq.route = "matchup"
      /\ CachesLoaded
      /\ OffensiveMatches(lastReq.player_name) # {}
      /\ DefensiveMatches(lastReq.team_name) # {} )
    => /\ lastResp.kind = "response"
       /\ lastResp.status = 200
       /\ lastResp.player = get_player_on(offensive_cache, lastReq.player_name).body
       /\ lastResp.defense = get_defense_on(defensive_cache, lastReq.team_name).body

\* C2: a matchup request is answered with get_player's 404 when no offensive
\* row matches, with get_defense's 404 when the player matches and no
\* defensive row matches, and never with a matchup record in these cases.
C2_MatchupPropagates404 ==
    (lastReq.route = "matchup" /\ CachesLoaded)
    => /\ OffensiveMatches(lastReq.player_name) = {}
          => /\ lastResp.status = 404
             /\ lastResp.body.error = "Player not found"
             /\ lastResp.player = NoBody /\ lastResp.defense = NoBody
       /\ ( /\ OffensiveMatches(lastReq.player_name) # {}
            /\ DefensiveMatches(lastReq.team_name) = {} )
          => /\ lastResp.status = 404
             /\ lastResp.body.error = "Team not found"
             /\ lastResp.player = NoBody /\ lastResp.defense = NoBody

\* C3: with a non-empty offensive cache, get_player answers 404 "Player not
\* found" exactly when no row matches, and otherwise 200 with one data entry
\* per matching row (play type, team and player of that row) and no other.
C3_PlayerDataIsTheMatchingRows ==
    (lastReq.route = "player" /\ offensive_cache # << >>)
    => LET matching == OffensiveMatches(lastReq.player_name)
           data == lastResp.body.data
           EntryOf(ir) ==
               LET df == offensive_cache[ir[1]][2]
                   row == df.rows[ir[2]]
               IN  Entry(offensive_cache[ir[1]][1], Cell(df, row, "TEAM"),
                         Cell(df, row, "PLAYER"), FloatOrZero(Cell(df, row, "PTS")),
                         None, None)
       IN  /\ lastResp.kind # "raise"
           /\ (lastResp.status = 404) <=> (matching = {})
           /\ matching = {} => lastResp.body.error = "Player not found"
           /\ matching # {}
              => /\ lastResp.status = 200
                 /\ Len(data) = Cardinality(matching)
                 /\ \A ir \in matching : \E k \in 1..Len(data) : data[k] = EntryOf(ir)
                 /\ \A k \in 1..Len(data) : \E ir \in matching : data[k] = EntryOf(ir)

\* a search that matches only through accent removal, lowercasing and
\* whitespace collapsing, over a cache that also holds a table without PTS
C3_Witness ==
    /\ lastReq.route = "player"
    /\ lastReq.player_name = << "a", "l", "sp", "b" >>
    /\ lastResp.status = 200
    /\ Len(lastResp.body.data) = 1
    /\ lastResp.body.data[1].player = Str(<< "A_acute", "l", "sp", "sp", "B" >>)
    /\ \E i \in 1..Len(offensive_cache) :
           "PTS" \notin {offensive_cache[i][2].cols[j] : j \in 1..Len(offensive_cache[i][2].cols)}

\* C4: get_defense answers 200 or 404 for every non-empty defensive cache
\* the loader produces, whatever columns its tables have.
C4_DefenseNeverFails ==
    (lastReq.route = "defense" /\ defensive_cache # << >>)
    => /\ lastResp.kind # "raise"
       /\ lastResp.status \in {200, 404}

\* C5: once load_cache_from_json has returned, no step changes
\* offensive_cache, defensive_cache or cache_timestamp.
C5_CachesFrozenAfterLoad ==
    [][load_result # "pending" => UNCHANGED cacheVars]_vars

\* a status request answered from loaded caches
C5_Witness ==
    /\ lastReq.route = "status"
    /\ load_result = "True"
    /\ offensive_cache # << >>
    /\ cache_timestamp = Num(ScrapeTime)

\* the scrapes of one side that returned a table
TablesOf(side) == SelectSeq(CallsOf(side), LAMBDA c : ~c.result.isNone)

\* cache holds exactly the tables scraped for side, row for row
SameTables(cache, side) ==
    /\ {cache[i][1] : i \in 1..Len(cache)}
         = {TablesOf(side)[k].play_type : k \in 1..Len(TablesOf(side))}
    /\ Len(cache) = Len(TablesOf(side))
    /\ \A i \in 1..Len(cache) :
           \E k \in 1..Len(TablesOf(side)) :
               LET scraped == TablesOf(side)[k].result
                   loaded == cache[i][2]
               IN  /\ TablesOf(side)[k].play_type = cache[i][1]
                   /\ loaded.rows = scraped.rows
                   /\ scraped.rows # << >> => loaded.cols = scraped.cols

\* C6: after a completed scrape and a load that returned True, each cache
\* holds exactly the play types whose scrape returned a table, and each
\* loaded table has the rows of the scraped one, in order, value for value.
C6_CacheRoundTrip ==
    (spc = "done" /\ load_result = "True")
    => /\ SameTables(offensive_cache, "offensive")
       /\ SameTables(defensive_cache, "defensive")
       /\ cache_timestamp = Num(ScrapeTime)

\* a load of a two-row table with a NaN cell next to a failed scrape
C6_Witness ==
    /\ spc = "done"
    /\ load_result = "True"
    /\ \E c \in {CallsOf("offensive")[k] : k \in 1..Len(CallsOf("offensive"))} : c.result.isNone
    /\ \E i \in 1..Len(offensive_cache) :
           /\ Len(offensive_cache[i][2].rows) = 2
           /\ \E j \in 1..Len(offensive_cache[i][2].cols) :
                  offensive_cache[i][2].rows[2][j] = NaN
    /\ \E i \in 1..Len(defensive_cache) : Len(defensive_cache[i][2].rows) = 2

\* C7: the server takes requests only after load_cache_from_json returned
\* True; after a False the process exits with status 1 without ever
\* answering a request.
C7_ServeOnlyAfterLoad ==
    /\ (bpc = "serving" \/ lastReq.route # "none") => load_result = "True"
    /\ load_result = "False"
       => /\ bpc \in {"returned", "exited"}
          /\ lastReq.route = "none"
    /\ bpc = "exited" <=> exitStatus = 1
    /\ bpc = "exited" => load_result = "False"

\* a request answered by a server whose load returned True
C7_Witness ==
    /\ lastReq.route = "player"
    /\ lastResp.status = 200
    /\ load_result = "True"
    /\ exitStatus = -1

\* the text of the exception a request to ai_analysis runs into, if any
Raises(req) ==
    \/ req.fault \in {"json", "absent"}
    \/ req.names /\ req.fault \in {"stats", "crew"}

RaisedMessage(req) ==
    CASE req.fault = "json" -> BadRequestMessage
      [] req.fault = "absent" -> AttributeErrorMessage
      [] req.fault = "stats" -> KeyErrorMessage
      [] OTHER -> req.message

MentionsQuota(text) ==
    \E i \in 1..Len(text) :
        /\ i + 4 <= Len(text)
        /\ text[i] \in {"q", "Q"} /\ text[i + 1] \in {"u", "U"}
        /\ text[i + 2] \in {"o", "O"} /\ text[i + 3] \in {"t", "T"}
        /\ text[i + 4] \in {"a", "A"}

Mentions429(text) ==
    \E i \in 1..Len(text) :
        /\ i + 2 <= Len(text)
        /\ text[i] = "4" /\ text[i + 1] = "2" /\ text[i + 2] = "9"

\* C8: an exception raised while ai_analysis handles a request becomes an
\* error response, 429 when its text mentions "quota" (in any case) or
\* "429" and 500 otherwise; it never leaves the view function and the
\* server goes on serving.
C8_AiAnalysisCatches ==
    (lastReq.route = "ai_analysis" /\ Raises(lastReq))
    => /\ lastResp.kind = "tuple"
       /\ lastResp.status =
             IF MentionsQuota(RaisedMessage(lastReq)) \/ Mentions429(RaisedMessage(lastReq))
             THEN 429 ELSE 500
       /\ lastResp.body.error # ""
       /\ bpc = "serving"

\* an LLM failure whose text says "Quota", answered 429
C8_Witness ==
    /\ lastReq.route = "ai_analysis"
    /\ lastReq.fault = "crew"
    /\ lastReq.message = << "Q", "u", "o", "t", "a" >>
    /\ lastResp.status = 429
    /\ bpc = "serving"

\* the calls scrape_all_data makes when nothing stops it
ExpectedCalls ==
    [i \in 1..Len(OffTypes) |-> << "offensive", OffTypes[i] >>]
    \o [i \in 1..Len(DefTypes) |-> << "defensive", DefTypes[i] >>]

ExpectedWrites == << "offensive_cache.json", "defensive_cache.json", "cache_info.json" >>

IsPrefix(a, b) == Len(a) <= Len(b) /\ a = SubSeq(b, 1, Len(a))

C10_NotLoadedIffEmpty ==
    /\ lastReq.route = "player"
       => /\ (lastResp.status = 503) <=> (offensive_cache = << >>)
          /\ lastResp.status = 503 => lastResp.body.error = NotLoaded /\ lastResp.compared = 0
    /\ lastReq.route = "defense"
       => /\ (lastResp.status = 503) <=> (defensive_cache = << >>)
          /\ lastResp.status = 503 => lastResp.body.error = NotLoaded /\ lastResp.compared = 0

\* a defense request answered 503 while the offensive cache holds a table
C10_Witness ==
    /\ lastReq.route = "defense"
    /\ lastResp.status = 503
    /\ defensive_cache = << >>
    /\ offensive_cache # << >>

\* C11: once load_cache_from_json has returned True, no get_player or
\* get_defense request is answered 503 "Data not loaded".
C11_No503AfterLoad ==
    (load_result = "True" /\ lastReq.route \in {"player", "defense"})
    => lastResp.status # 503

\* C12: when load_cache_from_json returns False the three globals still
\* hold what they held before the call (the values of the module's start).
C12_LoadAllOrNothing ==
    load_result = "False"
    => /\ offensive_cache = << >>
       /\ defensive_cache = << >>
       /\ cache_timestamp = None

\* C13: a matchup request for which get_player or get_defense answers 503
\* is itself answered 503, never with a 200 record made of error bodies.
C13_Matchup503Propagates ==
    ( /\ lastReq.route = "matchup"
      /\ \/ get_player_on(offensive_cache, lastReq.player_name).status = 503
         \/ get_defense_on(defensive_cache, lastReq.team_name).status = 503 )
    => /\ lastResp.status = 503
       /\ lastResp.body.error = NotLoaded
       /\ lastResp.player = NoBody
       /\ lastResp.defense = NoBody

----------------------------------------------------------------------------
(* A scraper run next to the files of an earlier run.                      *)
(* scrape_all_data is a program of its own: it may be run again while the  *)
(* files a completed earlier run wrote are still on disk, and the backend  *)
(* may be started at any moment of that run.                               *)

\* the value time.time() yielded during the earlier run
PreviousScrapeTime == 1600

\* what the earlier run kept: every scrape of it found the full table
PreviousOffensive ==
    [i \in 1..Len(OffTypes) |->
        << OffTypes[i], to_dict_records(get_offensive_stats(OffensiveFull, OffTypes[i])) >>]

PreviousDefensive ==
    [i \in 1..Len(DefTypes) |->
        << DefTypes[i], to_dict_records(get_defensive_stats(DefensiveFull, DefTypes[i])) >>]

PreviousInfo ==
    << << "timestamp", Num(PreviousScrapeTime) >>,
       << "offensive_types", Num(Len(PreviousOffensive)) >>,
       << "defensive_types", Num(Len(PreviousDefensive)) >>,
       << "total_time_seconds", Num(0) >> >>

PreviousFiles ==
    [f \in FileNames |->
        CASE f = "offensive_cache.json" -> FileOf(json_dump_cache(PreviousOffensive))
          [] f = "defensive_cache.json" -> FileOf(json_dump_cache(PreviousDefensive))
          [] OTHER -> FileOf(json_dump_dict(PreviousInfo))]

\* a fresh directory, or one that holds the files of the earlier run
InitRace ==
    /\ spc = "offensive"
    /\ s_offensive = << >>
    /\ s_defensive = << >>
    /\ scrapeLog = << >>
    /\ files \in {[f \in FileNames |-> MissingFile], PreviousFiles}
    /\ writeLog = << >>
    /\ bpc = "load_offensive"
    /\ load_result = "pending"
    /\ offensive_cache = << >>
    /\ defensive_cache = << >>
    /\ cache_timestamp = None
    /\ exitStatus = -1
    /\ lastReq = NoRequest
    /\ lastResp = NoResponse

\* the steps of the scraper and of the backend's start-up; the requests
\* served afterwards leave the files and the three globals alone
NextRace ==
    \/ scrape_offensive
    \/ scrape_defensive
    \/ write_offensive
    \/ write_defensive
    \/ write_info
    \/ load_offensive
    \/ load_defensive
    \/ load_info
    \/ main_exit
    \/ main_run

SpecRace == InitRace /\ [][NextRace]_vars

\* the three globals as a load of the earlier run's files leaves them
LoadedFromPreviousRun ==
    /\ offensive_cache = frames(json_load_cache(json_dump_cache(PreviousOffensive)))
    /\ defensive_cache = frames(json_load_cache(json_dump_cache(PreviousDefensive)))
    /\ cache_timestamp = Num(PreviousScrapeTime)

\* the three globals as a load of the running scraper's files leaves them
LoadedFromThisRun ==
    /\ offensive_cache = frames(json_load_cache(json_dump_cache(s_offensive)))
    /\ defensive_cache = frames(json_load_cache(json_dump_cache(s_defensive)))
    /\ cache_timestamp = Num(ScrapeTime)

\* C14: whenever load_cache_from_json returns True, offensive_cache,
\* defensive_cache and cache_timestamp come from one and the same scraper
\* run, also when the scraper writes its files while the backend loads.
C14_LoadedFromOneRun ==
    load_result = "True" => (LoadedFromPreviousRun \/ LoadedFromThisRun)

----------------------------------------------------------------------------

\* the 1-based positions of team in the table scraped for play_type
ScrapedPositions(play_type, team) ==
    { r \in UNION { 1..Len(TablesOf("defensive")[k].result.rows) :
                       k \in 1..Len(TablesOf("defensive")) } :
        \E k \in 1..Len(TablesOf("defensive")) :
            LET call == TablesOf("defensive")[k]
            IN  /\ call.play_type = play_type
                /\ r <= Len(call.result.rows)
                /\ Cell(call.result, call.result.rows[r], "TEAM") = team }

\* C15: every table get_defensive_stats returns has RANK 1, 2, ..., N down
\* its rows, and the rank get_defense reports for a team in a play type is
\* the team's row position in the table scraped for that play type.
C15_RankIsRowPosition ==
    /\ \A k \in 1..Len(TablesOf("defensive")) :
           LET df == TablesOf("defensive")[k].result
           IN  /\ HasCol(df, "RANK")
               /\ \A r \in 1..Len(df.rows) : Cell(df, df.rows[r], "RANK") = Num(r)
               /\ \A r1, r2 \in 1..Len(df.rows) :
                      Cell(df, df.rows[r1], "RANK") = Cell(df, df.rows[r2], "RANK") => r1 = r2
    /\ (lastReq.route = "defense" /\ lastResp.status = 200)
       => \A k \in 1..Len(lastResp.body.data) :
              LET e == lastResp.body.data[k]
                  positions == ScrapedPositions(e.playType, e.team)
              IN  /\ positions # {}
                  /\ \A r \in positions : e.rank = Num(r)

\* the team in the second scraped row is reported with rank 2
C15_Witness ==
    /\ lastReq.route = "defense"
    /\ lastReq.team_name = << "b", "O" >>
    /\ lastResp.status = 200
    /\ lastResp.body.data[1].team = Str(<< "B", "o", "s" >>)
    /\ lastResp.body.data[1].rank = Num(2)

====
